---- MODULE Spec2Model ----
(***************************************************************************)
(* The todoitem table controller (src/todoitem/index.js) over the          *)
(* DocumentDB driver (src/docdb-driver).  A request is dispatched by       *)
(* tableRouter, waits for initialize, then runs one handler; each store    *)
(* call is one step of the store followed by the promise callback that     *)
(* consumes its result.                                                    *)
(*                                                                         *)
(* JavaScript objects are functions from the names of their own            *)
(* properties to values.  A property value is written as: a string for a   *)
(* JS string, the JSON text "true"/"false" for a boolean, a natural for    *)
(* _ts, a sequence of bytes for _etag, a sequence of base64 digits for     *)
(* version, and a record [day, sec, ms] for an ISO-8601 instant.           *)
(***************************************************************************)
EXTENDS Integers, Sequences, FiniteSets, TLC

\* ------------------------------------------------------------------ bounds
\* The store stops accepting writes after this many (each write draws a new _etag).
MaxWrites == 3
\* The wall clock advances at most this many ticks.
MaxClock == 1

\* ------------------------------------------------------------ JS objects
Empty == [f \in {} |-> 0]

Has(o, f) == f \in DOMAIN o

Set(o, f, v) == [g \in DOMAIN o \cup {f} |-> IF g = f THEN v ELSE o[g]]

Del(o, f) == [g \in DOMAIN o \ {f} |-> o[g]]

JsTrue == "true"
JsFalse == "false"
\* a JSON value that is not a boolean
JsYes == "\"yes\""

\* ------------------------------------------------------------ field codec
\* One tick of the model's clock, in milliseconds.
TickMs == 500

\* Date.prototype.toISOString of an instant given in milliseconds since the epoch.
ToISOString(ms) == [day |-> ms \div 86400000,
                    sec |-> (ms % 86400000) \div 1000,
                    ms  |-> ms % 1000]

\* moment.unix(seconds).toISOString()
MomentUnixISO(ts) == ToISOString(ts * 1000)

Pad == 64

\* new Buffer(bytes).toString('base64'): the base64 digits (0..63) and padding.
RECURSIVE ToBase64(_)
ToBase64(b) ==
    IF Len(b) = 0 THEN <<>>
    ELSE IF Len(b) = 1 THEN <<b[1] \div 4, (b[1] % 4) * 16, Pad, Pad>>
    ELSE IF Len(b) = 2 THEN <<b[1] \div 4, (b[1] % 4) * 16 + b[2] \div 16,
                              (b[2] % 16) * 4, Pad>>
    ELSE <<b[1] \div 4, (b[1] % 4) * 16 + b[2] \div 16,
           (b[2] % 16) * 4 + b[3] \div 64, b[3] % 64>>
         \o ToBase64(SubSeq(b, 4, Len(b)))

\* ------------------------------------------------------------- inputs
Undefined == "undefined"

Ids == {"a", "b"}

\* The request slots; the requests of Spec come one after another, in slot r1.
Reqs == {"r1", "r2"}

SeqReqs == {"r1"}

Methods == {"GET", "POST", "PUT", "DELETE", "PATCH"}

\* The etag the store draws at its n-th write.
EtagOf(n) == <<101, 48 + n>>

\* A version token a client may hold: the one of the store's first write.
ClientVersion == ToBase64(EtagOf(1))

\* An instant a client may send as createdAt or updatedAt.
ClientISO == ToISOString(86400000)

IdOpts == {Empty} \cup {Set(Empty, "id", i) : i \in Ids}

Merge(a, b) == [f \in DOMAIN a \cup DOMAIN b |-> IF f \in DOMAIN b THEN b[f] ELSE a[f]]

ExtraOpts == { Set(Empty, "title", "t1"),
               Set(Empty, "title", "t2"),
               Set(Set(Empty, "title", "t1"), "deleted", JsTrue),
               Set(Set(Empty, "title", "t1"), "deleted", JsYes),
               Set(Set(Set(Empty, "title", "t1"), "version", ClientVersion),
                   "updatedAt", ClientISO),
               Set(Set(Empty, "title", "t1"), "createdAt", ClientISO) }

\* The request bodies (req.body) of POST and PUT.
Bodies == { Merge(i, e) : i \in IdOpts, e \in ExtraOpts }

\* The request headers (req.headers) that matter to the handlers.
HeaderOpts == { Empty, Set(Empty, "if-match", ClientVersion) }

\* The store's failures, as the error objects its driver rejects with: a status
\* code and a JSON body whose shape is named.
ErrBodies == {"nomessage", "twolines", "oneline"}

StoreErrors == { Set(Set(Empty, "code", 503), "body", b) : b \in ErrBodies }

\* An Error thrown by the handler's own code: no code and no body property.
JsError == Set(Empty, "message", "thrown")

\* ------------------------------------------------------- document mapper
ConvertItemLenient(item) ==
    LET i1 == IF Has(item, "_ts")
              THEN Del(Set(item, "updatedAt", MomentUnixISO(item["_ts"])), "_ts") ELSE item
        i2 == IF Has(i1, "_etag")
              THEN Del(Set(i1, "version", ToBase64(i1["_etag"])), "_etag") ELSE i1
    IN [threw |-> ~Has(item, "_ts"),
        item  |-> Del(Del(Del(i2, "_rid"), "_self"), "_attachments")]

\* convertItem mutates the object it is given and returns it, or throws.  The
\* result is the state of the object afterwards and whether the call threw.
ConvertItem(item) ==
    IF ~Has(item, "_ts") THEN [threw |-> TRUE, item |-> item]
    ELSE LET i1 == Del(Set(item, "updatedAt", MomentUnixISO(item["_ts"])), "_ts") IN
         IF ~Has(i1, "_etag") THEN [threw |-> TRUE, item |-> i1]
         ELSE LET i2 == Del(Set(i1, "version", ToBase64(i1["_etag"])), "_etag") IN
              [threw |-> FALSE,
               item  |-> Del(Del(Del(i2, "_rid"), "_self"), "_attachments")]

\* ------------------------------------------------------ error translator
\* convertError throws when error.body is undefined (JSON.parse(undefined)) and
\* when the message has no second line (msg[1].split on undefined).
ConvertErrorThrows(error) ==
    \/ ~Has(error, "body")
    \/ error["body"] = "oneline"

ConvertError(error) ==
    IF error["body"] = "twolines"
    THEN Set(Set(Set(Empty, "code", "ServiceUnavailable"), "errors", "Errors"),
             "activityid", "1")
    ELSE Set(Empty, "code", "ServiceUnavailable")

\* The catch handler of every promise chain:
\*   res.status(error.code).json(convertError(error))
\* json is called only when convertError returns.
CatchResponses(error) ==
    IF ConvertErrorThrows(error) THEN <<>>
    ELSE << [status |-> error["code"], body |-> ConvertError(error)] >>

\* ------------------------------------------------------------- the state
VARIABLES
    store,     \* the collection: self-link -> document
    writes,    \* the number of writes the store has accepted
    now,       \* the wall clock, in milliseconds
    created,   \* history: self-link -> the createdAt the document was created with
    req,       \* request slot -> the request in it and its handler's state
    \* convertItem on its own (src/todoitem/index.js:439-460)
    arg,       \* the object convertItem is called with, as it was at the call
    obj,       \* the same object, as convertItem has changed it so far
    outcome,   \* "none" before the call, then "returned" or "threw"
    \* ensureDatabaseExists (src/docdb-driver/index.js:6-26)
    dbCache,   \* database name -> the reference cached for it
    databases, \* the account: database name -> its reference
    ensure,    \* call -> the state of that call of ensureDatabaseExists
    creates,   \* history: database name -> number of createDatabase calls made
    \* the filter rewrite loop (src/unnamed/part_000:16-25)
    filter,    \* req.query.$filter
    given,     \* history: the filter as it was received
    loop,      \* where the script is: "idle", "while", "rewritten" or "compiled"
    turns      \* history: the turns the while loop has taken

tableVars == <<store, writes, now, created, req>>

convertVars == <<arg, obj, outcome>>

dbVars == <<dbCache, databases, ensure, creates>>

filterVars == <<filter, given, loop, turns>>

\* What a step of the table controller leaves alone.
aux == <<convertVars, dbVars, filterVars>>

vars == <<tableVars, convertVars, dbVars, filterVars>>

\* The self-links the store gives its documents, in the order it creates them.
LinkSeq == <<"docs/1", "docs/2">>

Links == { LinkSeq[n] : n \in DOMAIN LinkSeq }

IdleReq == [pc |-> "idle", method |-> "GET", id |-> Undefined,
            body |-> Empty, headers |-> Empty,
            item |-> Empty, found |-> FALSE, document |-> Empty, fetched |-> Empty,
            link |-> Undefined, sent |-> <<>>, calls |-> <<>>, outage |-> FALSE,
            error |-> Empty]

\* The table controller before its first request: an empty collection.
TableIdle ==
    /\ store = Empty
    /\ writes = 0
    /\ now = 0
    /\ created = Empty
    /\ req = [r \in Reqs |-> IdleReq]

\* convertItem not called.
ConvertIdle ==
    /\ arg = Empty
    /\ obj = Empty
    /\ outcome = "none"

\* The driver after module load: var dbCache = {}, no call made.
DbIdle ==
    /\ dbCache = Empty
    /\ databases = Empty
    /\ ensure = Empty
    /\ creates = Empty

\* The rewrite script not started.
FilterIdle ==
    /\ filter = <<>>
    /\ given = <<>>
    /\ loop = "idle"
    /\ turns = 0

Init == TableIdle /\ ConvertIdle /\ DbIdle /\ FilterIdle

\* ------------------------------------------------------------- the store
\* The system properties the store writes on a document at self-link l.
SystemProps(l, n, t) ==
    Set(Set(Set(Set(Set(Empty, "_rid", l), "_self", l), "_etag", EtagOf(n)),
            "_ts", t \div 1000), "_attachments", "attachments/")

\* client.queryDocuments(...).current: the first document whose id is docId, if any.
Matching(docId) == { l \in DOMAIN store : Has(store[l], "id") /\ store[l]["id"] = docId }

FreeLinks == IF Cardinality(DOMAIN store) < Len(LinkSeq)
             THEN {LinkSeq[Cardinality(DOMAIN store) + 1]} ELSE {}

UsedIds == { store[l]["id"] : l \in DOMAIN store }

\* ------------------------------------------------------------ responses
\* res.status(status).json(body)
Respond(q, status, body) ==
    [q EXCEPT !.sent = Append(@, [status |-> status, body |-> body])]

Done(q) == [q EXCEPT !.pc = "done"]

\* The request's promise chain runs its catch handler on error and ends.  (The
\* error field is history: the error the handler was entered with.)
Catch(q, error) == Done([q EXCEPT !.sent = @ \o CatchResponses(error), !.error = error])

Call(q, name, pc) == [q EXCEPT !.pc = pc, !.calls = Append(@, name)]

NotFound == Set(Empty, "error", "Not Found")

\* ----------------------------------------------------------- tableRouter
\* tableRouter is called with a request and starts initialize(context).
Dispatch(r, m, id, body, headers) ==
    /\ req[r].pc = "idle"
    /\ req' = [req EXCEPT ![r] = [IdleReq EXCEPT !.pc = "init", !.method = m, !.id = id,
                                                 !.body = body, !.headers = headers,
                                                 !.item = body]]
    /\ UNCHANGED <<store, writes, now, created, aux>>

\* History: the store failed for a reason of its own (not for what it was sent).
Outage(q) == [q EXCEPT !.outage = TRUE]

\* initialize(context) rejects (the store cannot be reached): tableRouter attaches
\* no catch handler, so the request ends here.
InitializeRejected(r) ==
    /\ req[r].pc = "init"
    /\ req' = [req EXCEPT ![r] = Done(Outage(@))]
    /\ UNCHANGED <<store, writes, now, created, aux>>

\* initialize(context) resolves with a method that is none of GET/POST/PUT/DELETE.
MethodNotSupported(r) ==
    /\ req[r].pc = "init"
    /\ req[r].method \notin {"GET", "POST", "PUT", "DELETE"}
    /\ req' = [req EXCEPT ![r] =
                 Done(Respond(@, 405, Set(Empty, "error", "Operation not supported")))]
    /\ UNCHANGED <<store, writes, now, created, aux>>

\* GET without an id.
GetAllItems(r) ==
    /\ req[r].pc = "init"
    /\ req[r].method = "GET"
    /\ req[r].id = Undefined
    /\ req' = [req EXCEPT ![r] = Done(Respond(@, 200, Set(Empty, "message", "getAll")))]
    /\ UNCHANGED <<store, writes, now, created, aux>>

\* GET with an id, PUT and DELETE start by fetching the document.
FetchDocument(r) ==
    /\ req[r].pc = "init"
    /\ \/ req[r].method = "GET" /\ req[r].id # Undefined
       \/ req[r].method \in {"PUT", "DELETE"}
    /\ req' = [req EXCEPT ![r] = Call(@, "fetchDocument", "fetch")]
    /\ UNCHANGED <<store, writes, now, created, aux>>

\* The fetch fails: the chain's catch handler answers.
FetchRejected(r, error) ==
    /\ req[r].pc = "fetch"
    /\ req' = [req EXCEPT ![r] = Catch(Outage(@), error)]
    /\ UNCHANGED <<store, writes, now, created, aux>>

\* What a fetch by id yields: whether a document was found, and the document.
Fetched(q) ==
    LET m == Matching(q.id) IN
    IF m = {} THEN [q EXCEPT !.found = FALSE]
    ELSE LET d == store[CHOOSE l \in m : TRUE] IN
         [q EXCEPT !.found = TRUE, !.document = d, !.fetched = d]

\* --------------------------------------------------------------- getOneItem
IsDeleted(document) == Has(document, "deleted") /\ document["deleted"] = JsTrue

GetOneItemThen(q) ==
    IF ~q.found \/ IsDeleted(q.document) THEN Done(Respond(q, 404, NotFound))
    ELSE LET c == ConvertItem(q.document) IN
         IF c.threw THEN Catch([q EXCEPT !.document = c.item], JsError)
         ELSE Done(Respond([q EXCEPT !.document = c.item], 200, c.item))

GetOneItem(r) ==
    /\ req[r].pc = "fetch"
    /\ req[r].method = "GET"
    /\ req' = [req EXCEPT ![r] = GetOneItemThen(Fetched(@))]
    /\ UNCHANGED <<store, writes, now, created, aux>>

\* --------------------------------------------------------------- insertItem
InsertDocumentUnstripped(item, t) ==
    LET i1 == Set(item, "createdAt", ToISOString(t))
    IN IF ~Has(i1, "deleted") THEN Set(i1, "deleted", JsFalse) ELSE i1

\* The document insertItem hands to createDocument, made from req.body.
InsertDocument(item, t) ==
    LET i1 == Set(item, "createdAt", ToISOString(t))
        i2 == Del(Del(i1, "updatedAt"), "version")
    IN IF ~Has(i2, "deleted") THEN Set(i2, "deleted", JsFalse) ELSE i2

InsertItem(r) ==
    /\ req[r].pc = "init"
    /\ req[r].method = "POST"
    /\ req' = [req EXCEPT ![r] =
                 Call([@ EXCEPT !.item = InsertDocument(@, now)], "createDocument", "create")]
    /\ UNCHANGED <<store, writes, now, created, aux>>

\* client.createDocument: the store keeps the document under a new self-link,
\* with an id of its own when the document has none, and returns it.
CreateDocument(r) ==
    /\ req[r].pc = "create"
    /\ writes < MaxWrites
    /\ \E l \in FreeLinks :
       \E i \in Ids \ UsedIds :
          /\ Has(req[r].item, "id") => i = req[r].item["id"]
          /\ LET document == Merge(Set(req[r].item, "id", i), SystemProps(l, writes + 1, now))
                 c == ConvertItem(document)
             IN /\ store' = Set(store, l, document)
                /\ created' = Set(created, l, document["createdAt"])
                /\ req' = [req EXCEPT ![r] =
                             IF c.threw THEN Catch(@, JsError)
                             ELSE Done(Respond(@, 201, c.item))]
    /\ writes' = writes + 1
    /\ UNCHANGED <<now, aux>>

Conflict(b) == Set(Set(Empty, "code", 409), "body", b)

\* client.createDocument fails: the id is taken (409), or the store is unavailable.
CreateRejected(r, error) ==
    /\ req[r].pc = "create"
    /\ \/ error \in StoreErrors
       \/ /\ Has(req[r].item, "id")
          /\ req[r].item["id"] \in UsedIds
          /\ error \in { Conflict(b) : b \in ErrBodies }
    /\ req' = [req EXCEPT ![r] = Catch(IF error \in StoreErrors THEN Outage(@) ELSE @, error)]
    /\ UNCHANGED <<store, writes, now, created, aux>>

\* -------------------------------------------------------------- replaceItem
IdMismatchUnchecked(item, id) == FALSE

\* item.id !== id
IdMismatch(item, id) == ~Has(item, "id") \/ item["id"] # id

\* req.header: the request's header() method, an object with no own property
\* named after a header.
ReqHeader == Empty

IfMatchIgnored(headers, version) == FALSE

\* req.headers.hasOwnProperty('if-match') && req.header['if-match'] !== version
IfMatchFails(headers, version) ==
    /\ Has(headers, "if-match")
    /\ (~Has(ReqHeader, "if-match") \/ ReqHeader["if-match"] # version)

VersionIgnored(item, version) == FALSE

VersionConflictUnguarded(item, version) ==
    ~Has(item, "version") \/ item["version"] # version

\* item.hasOwnProperty('version') && item.version !== version
VersionConflict(item, version) ==
    /\ Has(item, "version")
    /\ item["version"] # version

\* document._self, undefined when the object has no such property
SelfLink(document) == IF Has(document, "_self") THEN document["_self"] ELSE Undefined

ReplaceItemThenFallsThrough(q) ==
    IF ~q.found THEN Done(Respond(q, 404, NotFound))
    ELSE LET version == ToBase64(q.document["_etag"])
             q1 == IF IdMismatch(q.item, q.id)
                   THEN Respond(q, 400, Set(Empty, "error", "Id does not match"))
                   ELSE q
         IN
         IF IfMatchFails(q.headers, version) \/ VersionConflict(q.item, version)
         THEN LET c == ConvertItem(q.document)
                  status == IF IfMatchFails(q.headers, version) THEN 412 ELSE 409
              IN IF c.threw THEN Catch([q1 EXCEPT !.document = c.item], JsError)
                 ELSE Done(Respond([q1 EXCEPT !.document = c.item], status, c.item))
         ELSE Call([q1 EXCEPT !.item = Del(Del(@, "updatedAt"), "version"),
                              !.link = SelfLink(q.document)],
                   "replaceDocument", "replace")

\* The then-callback of replaceItem's fetch: every answer is followed by return.
ReplaceItemThen(q) ==
    IF ~q.found THEN Done(Respond(q, 404, NotFound))
    ELSE LET version == ToBase64(q.document["_etag"]) IN
         IF IdMismatch(q.item, q.id)
         THEN Done(Respond(q, 400, Set(Empty, "error", "Id does not match")))
         ELSE IF IfMatchFails(q.headers, version) \/ VersionConflict(q.item, version)
         THEN LET c == ConvertItem(q.document)
                  status == IF IfMatchFails(q.headers, version) THEN 412 ELSE 409
              IN IF c.threw THEN Catch([q EXCEPT !.document = c.item], JsError)
                 ELSE Done(Respond([q EXCEPT !.document = c.item], status, c.item))
         ELSE Call([q EXCEPT !.item = Del(Del(@, "updatedAt"), "version"),
                             !.link = SelfLink(q.document)],
                   "replaceDocument", "replace")

ReplaceItem(r) ==
    /\ req[r].pc = "fetch"
    /\ req[r].method = "PUT"
    /\ req' = [req EXCEPT ![r] = ReplaceItemThen(Fetched(@))]
    /\ UNCHANGED <<store, writes, now, created, aux>>

\* --------------------------------------------------------------- deleteItem
\* item is the object convertItem returns, which is the fetched document itself:
\* document._self is read from the object after convertItem has changed it.
DeleteItemThen(q) ==
    IF ~q.found THEN Done(Respond(q, 404, NotFound))
    ELSE LET c == ConvertItem(q.document) IN
         IF c.threw THEN Catch([q EXCEPT !.document = c.item], JsError)
         ELSE LET item == Set(Del(Del(c.item, "updatedAt"), "version"), "deleted", JsTrue)
              IN Call([q EXCEPT !.item = item, !.document = item, !.link = SelfLink(item)],
                      "replaceDocument", "replace")

DeleteItem(r) ==
    /\ req[r].pc = "fetch"
    /\ req[r].method = "DELETE"
    /\ req' = [req EXCEPT ![r] = DeleteItemThen(Fetched(@))]
    /\ UNCHANGED <<store, writes, now, created, aux>>

\* ----------------------------------------------------------- replaceDocument
\* client.replaceDocument(docLink, item): the store replaces the document at
\* docLink by item, with a new _etag and _ts, and returns it; the callback answers
\* 200 with the mapped document.
ReplaceDocument(r) ==
    /\ req[r].pc = "replace"
    /\ req[r].link \in DOMAIN store
    /\ Has(req[r].item, "id")
    /\ writes < MaxWrites
    /\ LET l == req[r].link
           updatedDocument == Merge(req[r].item, SystemProps(l, writes + 1, now))
           c == ConvertItem(updatedDocument)
       IN /\ store' = Set(store, l, updatedDocument)
          /\ req' = [req EXCEPT ![r] =
                       IF c.threw THEN Done(@) ELSE Done(Respond(@, 200, c.item))]
    /\ writes' = writes + 1
    /\ UNCHANGED <<now, created, aux>>

\* client.replaceDocument fails (always so when docLink names no document): the
\* promise it returned has no catch handler and is not returned to the outer chain.
ReplaceRejected(r) ==
    /\ req[r].pc = "replace"
    /\ req' = [req EXCEPT ![r] =
                 Done(IF @.link \in DOMAIN store /\ Has(@.item, "id") THEN Outage(@) ELSE @)]
    /\ UNCHANGED <<store, writes, now, created, aux>>

\* ------------------------------------------------------------------ the rest
Tick ==
    /\ now < MaxClock * TickMs
    /\ now' = now + TickMs
    /\ UNCHANGED <<store, writes, created, req, aux>>

\* The request is over; its slot takes the next request.
Complete(r) ==
    /\ req[r].pc = "done"
    /\ req' = [req EXCEPT ![r] = IdleReq]
    /\ UNCHANGED <<store, writes, now, created, aux>>

Next ==
    \/ \E r \in SeqReqs :
          \/ \E id \in Ids \cup {Undefined} : Dispatch(r, "GET", id, Empty, Empty)
          \/ \E body \in Bodies : Dispatch(r, "POST", Undefined, body, Empty)
          \/ \E id \in Ids, body \in Bodies, headers \in HeaderOpts :
                Dispatch(r, "PUT", id, body, headers)
          \/ \E id \in Ids : Dispatch(r, "DELETE", id, Empty, Empty)
          \/ Dispatch(r, "PATCH", Undefined, Empty, Empty)
          \/ InitializeRejected(r)
          \/ MethodNotSupported(r)
          \/ GetAllItems(r)
          \/ FetchDocument(r)
          \/ \E error \in StoreErrors : FetchRejected(r, error)
          \/ GetOneItem(r)
          \/ InsertItem(r)
          \/ CreateDocument(r)
          \/ \E error \in StoreErrors \cup { Conflict(b) : b \in ErrBodies } :
                CreateRejected(r, error)
          \/ ReplaceItem(r)
          \/ DeleteItem(r)
          \/ ReplaceDocument(r)
          \/ ReplaceRejected(r)
          \/ Complete(r)
    \/ Tick

Spec == Init /\ [][Next]_vars

\* ======================================================================
\* Requests in flight together
\* ======================================================================
\* Two request slots served at once: an item "a" is posted, and clients that hold
\* the version of its first write put new titles on it.  The store does not fail.
RaceBodies ==
    { Set(Set(Set(Empty, "id", "a"), "title", t), "version", ClientVersion) :
          t \in {"t1", "t2"} }

NextRace ==
    \E r \in Reqs :
        \/ Dispatch(r, "POST", Undefined, Set(Set(Empty, "id", "a"), "title", "t1"), Empty)
        \/ \E body \in RaceBodies : Dispatch(r, "PUT", "a", body, Empty)
        \/ FetchDocument(r)
        \/ InsertItem(r)
        \/ CreateDocument(r)
        \/ \E error \in { Conflict(b) : b \in ErrBodies } : CreateRejected(r, error)
        \/ ReplaceItem(r)
        \/ ReplaceDocument(r)
        \/ Complete(r)

SpecRace == Init /\ [][NextRace]_vars

\* ======================================================================
\* convertItem on its own
\* ======================================================================
\* The objects convertItem is tried on: any choice of present fields.  (_ts is kept
\* small: an instant in milliseconds has to fit the checker's integers.)
FieldOpts(f, values) == {Empty} \cup { Set(Empty, f, v) : v \in values }

Documents ==
    { Merge(Merge(Merge(Merge(Merge(Merge(Merge(Merge(i, t), ts), e), rid), self), att), u), v) :
        i \in FieldOpts("id", {"a"}),
        t \in FieldOpts("title", {"t1"}),
        ts \in FieldOpts("_ts", {0, 90061}),
        e \in FieldOpts("_etag", {EtagOf(1), <<97, 98, 99>>}),
        rid \in FieldOpts("_rid", {"docs/1"}),
        self \in FieldOpts("_self", {"docs/1"}),
        att \in FieldOpts("_attachments", {"attachments/"}),
        u \in FieldOpts("updatedAt", {ClientISO}),
        v \in FieldOpts("version", {ClientVersion}) }

InitConvert ==
    /\ arg \in Documents
    /\ obj = arg
    /\ outcome = "none"
    /\ TableIdle /\ DbIdle /\ FilterIdle

\* convertItem(obj) runs and returns the object.
ConvertItemReturns ==
    /\ outcome = "none"
    /\ ~ConvertItem(obj).threw
    /\ obj' = ConvertItem(obj).item
    /\ outcome' = "returned"
    /\ UNCHANGED <<arg, tableVars, dbVars, filterVars>>

\* convertItem(obj) runs and throws.
ConvertItemThrows ==
    /\ outcome = "none"
    /\ ConvertItem(obj).threw
    /\ obj' = ConvertItem(obj).item
    /\ outcome' = "threw"
    /\ UNCHANGED <<arg, tableVars, dbVars, filterVars>>

NextConvert == ConvertItemReturns \/ ConvertItemThrows

SpecConvert == InitConvert /\ [][NextConvert]_vars

\* ======================================================================
\* ensureDatabaseExists
\* ======================================================================
\* The calls of ensureDatabaseExists that may be in flight together (initialize
\* makes one for every request), and the database names they are made with.
EnsureCalls == {"e1", "e2", "e3"}

DbNames == {"AzureMobile", "Other"}

\* The reference the account holds for a database.
DbRef(name) == [id |-> name, _self |-> <<"dbs", name>>]

IdleCall == [pc |-> "idle", database |-> Undefined, cached |-> FALSE]

\* The account has the database already, or not yet.
InitDb ==
    /\ dbCache = Empty
    /\ databases \in { Empty, Set(Empty, "AzureMobile", DbRef("AzureMobile")) }
    /\ ensure = [c \in EnsureCalls |-> IdleCall]
    /\ creates = [n \in DbNames |-> 0]
    /\ TableIdle /\ ConvertIdle /\ FilterIdle

\* ensureDatabaseExists(client, database), up to its return: the cached reference,
\* or the promise of findDatabaseById.
EnsureDatabaseExists(c, database) ==
    /\ ensure[c].pc = "idle"
    /\ ensure' = [ensure EXCEPT ![c] =
                    IF Has(dbCache, database)
                    THEN [pc |-> "resolved", database |-> database, cached |-> TRUE,
                          result |-> dbCache[database]]
                    ELSE [pc |-> "finding", database |-> database, cached |-> FALSE]]
    /\ UNCHANGED <<dbCache, databases, creates, tableVars, convertVars, filterVars>>

\* findDatabaseById resolves with a reference: it is cached and returned.
FindDatabaseByIdFound(c) ==
    /\ ensure[c].pc = "finding"
    /\ Has(databases, ensure[c].database)
    /\ LET dbRef == databases[ensure[c].database] IN
       /\ dbCache' = Set(dbCache, ensure[c].database, dbRef)
       /\ ensure' = [ensure EXCEPT ![c] =
                       [pc |-> "resolved", database |-> @.database, cached |-> FALSE,
                        result |-> dbRef]]
    /\ UNCHANGED <<databases, creates, tableVars, convertVars, filterVars>>

\* findDatabaseById resolves with null: createDatabase is called.
FindDatabaseByIdNull(c) ==
    /\ ensure[c].pc = "finding"
    /\ ~Has(databases, ensure[c].database)
    /\ ensure' = [ensure EXCEPT ![c].pc = "creating"]
    /\ creates' = [creates EXCEPT ![ensure[c].database] = @ + 1]
    /\ UNCHANGED <<dbCache, databases, tableVars, convertVars, filterVars>>

\* createDatabase resolves: the account has the new database, which is cached.
CreateDatabaseResolved(c) ==
    /\ ensure[c].pc = "creating"
    /\ ~Has(databases, ensure[c].database)
    /\ LET result == DbRef(ensure[c].database) IN
       /\ databases' = Set(databases, ensure[c].database, result)
       /\ dbCache' = Set(dbCache, ensure[c].database, result)
       /\ ensure' = [ensure EXCEPT ![c] =
                       [pc |-> "resolved", database |-> @.database, cached |-> FALSE,
                        result |-> result]]
    /\ UNCHANGED <<creates, tableVars, convertVars, filterVars>>

\* createDatabase is rejected: the account has a database of that name by now.
CreateDatabaseRejected(c) ==
    /\ ensure[c].pc = "creating"
    /\ Has(databases, ensure[c].database)
    /\ ensure' = [ensure EXCEPT ![c].pc = "rejected"]
    /\ UNCHANGED <<dbCache, databases, creates, tableVars, convertVars, filterVars>>

NextDb ==
    \E c \in EnsureCalls :
        \/ \E database \in DbNames : EnsureDatabaseExists(c, database)
        \/ FindDatabaseByIdFound(c)
        \/ FindDatabaseByIdNull(c)
        \/ CreateDatabaseResolved(c)
        \/ CreateDatabaseRejected(c)

SpecDb == InitDb /\ [][NextDb]_vars

\* ======================================================================
\* The filter rewrite loop
\* ======================================================================
\* A filter is a sequence of pieces of text: the word updatedAt, a space, a quote,
\* words of lower-case letters, and datetime literals.
MaxSegments == 3

U == "updatedAt"

SP == " "

Q == "'"

LowerWords == {"ge", "lt", "and", "eq", "soon", "complete", "true"}

\* The datetime literals, with the instant each one denotes.
DateLiterals == [d \in {"2017-02-03T00:00:00.000", "1970-01-02T01:01:01.500"} |->
                    IF d = "2017-02-03T00:00:00.000"
                    THEN [day |-> 17200, sec |-> 0, ms |-> 0]
                    ELSE [day |-> 1, sec |-> 3661, ms |-> 500]]

Clause(op, literal) == <<U, SP, op, SP, Q>> \o literal \o <<Q>>

Segments ==
    { Clause("ge", <<"2017-02-03T00:00:00.000">>),
      Clause("lt", <<"1970-01-02T01:01:01.500">>),
      Clause("ge", <<"soon">>),
      <<U, SP, "ge", SP, Q>>,
      <<SP, "and", SP>>,
      <<"complete", SP, "eq", SP, "true">>,
      <<"2017-02-03T00:00:00.000">>,
      <<U>>,
      <<Q>>,
      <<SP>> }

RECURSIVE Filters(_)
Filters(n) ==
    IF n = 0 THEN { <<>> }
    ELSE LET shorter == Filters(n - 1) IN
         shorter \cup { f \o s : f \in shorter, s \in Segments }

\* The number of pieces from position i on that are lower-case letters: [a-z]+
RECURSIVE LetterRun(_, _)
LetterRun(f, i) ==
    IF i <= Len(f) /\ f[i] \in LowerWords THEN 1 + LetterRun(f, i + 1) ELSE 0

\* The number of pieces from position i on that hold no quote: [^']+
RECURSIVE LiteralRun(_, _)
LiteralRun(f, i) ==
    IF i <= Len(f) /\ f[i] # Q THEN 1 + LiteralRun(f, i + 1) ELSE 0

\* /updatedAt ([a-z]+) '([^']+)'/ tried at position i: the groups of the match.
NoMatch == [len |-> 0, op |-> <<>>, literal |-> <<>>]

MatchAt(f, i) ==
    IF i + 1 <= Len(f) /\ f[i] = U /\ f[i + 1] = SP
    THEN LET a == LetterRun(f, i + 2)
             p == i + 2 + a
         IN  IF a >= 1 /\ p + 1 <= Len(f) /\ f[p] = SP /\ f[p + 1] = Q
             THEN LET b == LiteralRun(f, p + 2)
                      q == p + 2 + b
                  IN  IF b >= 1 /\ q <= Len(f) /\ f[q] = Q
                      THEN [len |-> q - i + 1,
                            op |-> SubSeq(f, i + 2, p - 1),
                            literal |-> SubSeq(f, p + 2, q - 1)]
                      ELSE NoMatch
             ELSE NoMatch
    ELSE NoMatch

\* regex.test(filter)
RegexTest(f) == \E i \in 1..Len(f) : MatchAt(f, i).len > 0

\* re.exec(filter): the leftmost match, results[0], results[1], results[2].
RECURSIVE LeftmostMatch(_, _)
LeftmostMatch(f, i) ==
    IF i > Len(f) \/ MatchAt(f, i).len > 0 THEN i ELSE LeftmostMatch(f, i + 1)

RegexExec(f) ==
    LET i == LeftmostMatch(f, 1)
        m == MatchAt(f, i)
    IN  << SubSeq(f, i, i + m.len - 1), m.op, m.literal >>

\* moment(text): a datetime literal, leading blanks allowed, is parsed; any other
\* text gives an invalid moment.
RECURSIVE TrimLeft(_)
TrimLeft(text) ==
    IF text # <<>> /\ Head(text) = SP THEN TrimLeft(Tail(text)) ELSE text

MomentIsValid(text) ==
    LET t == TrimLeft(text) IN Len(t) = 1 /\ t[1] \in DOMAIN DateLiterals

\* moment(text).unix(), as the template string prints it.
MomentUnixKept(text) == IF Len(text) = 1 THEN text[1] ELSE "NaN"

MomentUnix(text) ==
    IF MomentIsValid(text)
    THEN LET ts == DateLiterals[TrimLeft(text)[1]] IN ToString(ts.day * 86400 + ts.sec)
    ELSE "NaN"

\* `_ts ${results[1]} ${newDate}`
NewString(op, newDate) == <<"_ts", SP>> \o op \o <<SP, newDate>>

\* filter.replace(text, newString) with a text pattern: the first occurrence.
RECURSIVE IndexOf(_, _, _)
IndexOf(f, text, i) ==
    IF i + Len(text) - 1 > Len(f) THEN 0
    ELSE IF SubSeq(f, i, i + Len(text) - 1) = text THEN i
    ELSE IndexOf(f, text, i + 1)

StringReplace(f, text, newString) ==
    LET i == IndexOf(f, text, 1) IN
    IF i = 0 THEN f
    ELSE SubSeq(f, 1, i - 1) \o newString \o SubSeq(f, i + Len(text), Len(f))

InitFilter == FilterIdle /\ TableIdle /\ ConvertIdle /\ DbIdle

\* The script is run on a request with some $filter.
ReadQuery ==
    /\ loop = "idle"
    /\ \E f \in Filters(MaxSegments) : filter' = f /\ given' = f
    /\ loop' = "while"
    /\ UNCHANGED <<turns, tableVars, convertVars, dbVars>>

\* One turn of the while loop.
RewriteClause ==
    /\ loop = "while"
    /\ RegexTest(filter)
    /\ LET results == RegexExec(filter)
           newDate == MomentUnix(results[3])
           newString == NewString(results[2], newDate)
       IN  filter' = StringReplace(filter, results[1], newString)
    /\ turns' = turns + 1
    /\ UNCHANGED <<given, loop, tableVars, convertVars, dbVars>>

\* The test of the while loop fails.
LoopExit ==
    /\ loop = "while"
    /\ ~RegexTest(filter)
    /\ loop' = "rewritten"
    /\ UNCHANGED <<filter, given, turns, tableVars, convertVars, dbVars>>

\* OData.fromOData and formatSql are called with the filter.
FromOData ==
    /\ loop = "rewritten"
    /\ loop' = "compiled"
    /\ UNCHANGED <<filter, given, turns, tableVars, convertVars, dbVars>>

NextFilter == ReadQuery \/ RewriteClause \/ LoopExit \/ FromOData

SpecFilter == InitFilter /\ [][NextFilter]_vars

\* ======================================================================
\* Properties
\* ======================================================================
StorePrivate == {"_ts", "_etag", "_rid", "_self", "_attachments"}

\* The public item of a store document d: updatedAt from _ts, version from _etag,
\* no store-private field, every other field as in d.
PublicOf(d) ==
    [f \in (DOMAIN d \ StorePrivate) \cup {"updatedAt", "version"} |->
        IF f = "updatedAt" THEN MomentUnixISO(d["_ts"])
        ELSE IF f = "version" THEN ToBase64(d["_etag"])
        ELSE d[f]]

\* A PUT whose fetch found a document and whose body id is the path id.
PutOnExisting(r) ==
    /\ req[r].method = "PUT"
    /\ req[r].pc \in {"replace", "done"}
    /\ req[r].found
    /\ Has(req[r].body, "id")
    /\ req[r].body["id"] = req[r].id

CurrentVersion(r) == ToBase64(req[r].fetched["_etag"])

Replaces(r) == \E n \in DOMAIN req[r].calls : req[r].calls[n] = "replaceDocument"

\* The request ended with the one response (status, public item of the fetched
\* document), issued no replace, and the fetched document is still the stored one.
RejectedWith(r, status) ==
    /\ req[r].pc = "done"
    /\ req[r].sent = << [status |-> status, body |-> PublicOf(req[r].fetched)] >>
    /\ ~Replaces(r)
    /\ store[req[r].fetched["_self"]] = req[r].fetched

\* C1: a PUT on an existing item, ids equal, no if-match header, whose body version
\* differs from the base64 of the fetched _etag, is answered 409 with the public
\* mapping of the fetched document, issues no replace and leaves the document as it is.
C1_BodyVersionCase(r) ==
    /\ PutOnExisting(r)
    /\ ~Has(req[r].headers, "if-match")
    /\ Has(req[r].body, "version")
    /\ req[r].body["version"] # CurrentVersion(r)

C1_BodyVersionMismatchIs409 ==
    \A r \in Reqs : C1_BodyVersionCase(r) => RejectedWith(r, 409)

C1_Witness ==
    \E r \in Reqs : C1_BodyVersionCase(r) /\ req[r].pc = "done"
                    /\ Len(req[r].sent) = 1 /\ req[r].sent[1].status = 409

\* C2: a PUT on an existing item, ids equal, whose if-match header differs from the
\* base64 of the fetched _etag, is answered 412 with the public mapping of the
\* fetched document, issues no replace and leaves the document as it is.
C2_IfMatchCase(r) ==
    /\ PutOnExisting(r)
    /\ Has(req[r].headers, "if-match")
    /\ req[r].headers["if-match"] # CurrentVersion(r)

C2_IfMatchMismatchIs412 ==
    \A r \in Reqs : C2_IfMatchCase(r) => RejectedWith(r, 412)

C2_Witness ==
    \E r \in Reqs : C2_IfMatchCase(r) /\ req[r].pc = "done"
                    /\ Len(req[r].sent) = 1 /\ req[r].sent[1].status = 412

\* C3: a PUT on an existing, non-deleted item, ids equal, whose if-match header
\* equals the current version and whose body carries no mismatching version, is not
\* answered 412: the replace is issued.
C3_MatchingCase(r) ==
    /\ PutOnExisting(r)
    /\ ~IsDeleted(req[r].fetched)
    /\ Has(req[r].headers, "if-match")
    /\ req[r].headers["if-match"] = CurrentVersion(r)
    /\ (Has(req[r].body, "version") => req[r].body["version"] = CurrentVersion(r))

C3_MatchingIfMatchProceeds ==
    \A r \in Reqs :
        C3_MatchingCase(r) =>
            /\ Replaces(r)
            /\ \A n \in DOMAIN req[r].sent : req[r].sent[n].status # 412

\* C4: a PUT whose path id names no document, or a document with deleted=true, is
\* answered 404 and issues no replace.
C4_AbsentOrDeleted(r) ==
    /\ req[r].method = "PUT"
    /\ req[r].pc \in {"replace", "done"}
    /\ req[r].calls # <<>>
    /\ ~req[r].outage
    /\ (~req[r].found \/ IsDeleted(req[r].fetched))

C4_PutOnAbsentOrDeletedIs404 ==
    \A r \in Reqs :
        C4_AbsentOrDeleted(r) =>
            /\ req[r].pc = "done"
            /\ req[r].sent = << [status |-> 404, body |-> NotFound] >>
            /\ ~Replaces(r)

\* C5: a DELETE on an id whose document exists ends with 200; the document is then
\* still stored, with deleted=true and every other public field as before, and a
\* GET by that id yields 404.
C5_DeleteCase(r) ==
    /\ req[r].method = "DELETE"
    /\ req[r].pc = "done"
    /\ req[r].found
    /\ ~req[r].outage

C5_DeleteSoftDeletes ==
    \A r \in Reqs :
        C5_DeleteCase(r) =>
            /\ Len(req[r].sent) = 1
            /\ req[r].sent[1].status = 200
            /\ LET before == req[r].fetched
                   after == store[before["_self"]]
               IN /\ IsDeleted(after)
                  /\ \A f \in DOMAIN before \ (StorePrivate \cup {"deleted"}) :
                        Has(after, f) /\ after[f] = before[f]
            /\ GetOneItemThen(Fetched([IdleReq EXCEPT !.id = req[r].id])).sent[1].status = 404

\* C6: every request that tableRouter dispatched and whose work has ended has
\* received a response.
C6_EveryRequestAnswered ==
    \A r \in Reqs : req[r].pc = "done" => Len(req[r].sent) >= 1

\* C7: every stored document has the createdAt it was created with.
C7_CreatedAtKept ==
    \A l \in DOMAIN store :
        Has(store[l], "createdAt") /\ store[l]["createdAt"] = created[l]

\* C8: a PUT on an existing item whose body id differs from the path id is answered
\* 400 and issues no replace; and no step changes the id of a stored document.
C8_IdCase(r) ==
    /\ req[r].method = "PUT"
    /\ req[r].pc \in {"replace", "done"}
    /\ req[r].found
    /\ (~Has(req[r].body, "id") \/ req[r].body["id"] # req[r].id)

C8_MismatchIs400 ==
    \A r \in Reqs :
        C8_IdCase(r) =>
            /\ req[r].pc = "done"
            /\ req[r].sent = << [status |-> 400, body |-> Set(Empty, "error", "Id does not match")] >>
            /\ ~Replaces(r)

C8_IdKept ==
    \A l \in DOMAIN store :
        l \in DOMAIN store' /\ Has(store'[l], "id") /\ store'[l]["id"] = store[l]["id"]

C8_IdMismatchRejectedAndIdsStable == [](C8_MismatchIs400) /\ [][C8_IdKept]_vars

C8_Witness ==
    \E r \in Reqs : /\ C8_IdCase(r)
                    /\ Has(req[r].body, "id")
                    /\ req[r].pc = "done"
                    /\ Len(req[r].sent) = 1 /\ req[r].sent[1].status = 400
                    /\ writes > 1

\* C9: a PUT on an existing item, ids equal, with neither an if-match header nor a
\* body version, issues the replace on the fetched document whatever its version,
\* and when the store accepts it the answer is 200 with the public mapping of the
\* document the store now holds, whose public fields are those of the body.
C9_UnconditionalCase(r) ==
    /\ PutOnExisting(r)
    /\ ~Has(req[r].headers, "if-match")
    /\ ~Has(req[r].body, "version")

C9_UnconditionalPutProceeds ==
    \A r \in Reqs :
        C9_UnconditionalCase(r) =>
            /\ Replaces(r)
            /\ req[r].link = req[r].fetched["_self"]
            /\ (req[r].pc = "done" /\ ~req[r].outage) =>
                  LET updated == store[req[r].link] IN
                  /\ req[r].sent = << [status |-> 200, body |-> PublicOf(updated)] >>
                  /\ updated["_etag"] # req[r].fetched["_etag"]
                  /\ DOMAIN updated \ StorePrivate = DOMAIN req[r].body \ {"updatedAt"}
                  /\ \A f \in DOMAIN updated \ StorePrivate : updated[f] = req[r].body[f]

C9_Witness ==
    \E r \in Reqs : /\ C9_UnconditionalCase(r)
                    /\ req[r].pc = "done"
                    /\ Len(req[r].sent) = 1 /\ req[r].sent[1].status = 200
                    /\ CurrentVersion(r) # ClientVersion

\* C10: the document a create hands to the store has a boolean deleted field, which
\* is false when the request body has no deleted field or a non-boolean one.
C10_Created(r) ==
    /\ req[r].method = "POST"
    /\ \E n \in DOMAIN req[r].calls : req[r].calls[n] = "createDocument"

C10_CreateHasBooleanDeleted ==
    \A r \in Reqs :
        C10_Created(r) =>
            /\ Has(req[r].item, "deleted")
            /\ req[r].item["deleted"] \in {JsTrue, JsFalse}
            /\ (~Has(req[r].body, "deleted") \/ req[r].body["deleted"] \notin {JsTrue, JsFalse})
                  => req[r].item["deleted"] = JsFalse

\* C11: no document handed to the store by a create, a replace or a delete has an
\* updatedAt or a version field.
C11_Handed(r) ==
    \E n \in DOMAIN req[r].calls : req[r].calls[n] \in {"createDocument", "replaceDocument"}

C11_NoServerFieldsHandedToStore ==
    \A r \in Reqs :
        C11_Handed(r) => ~Has(req[r].item, "updatedAt") /\ ~Has(req[r].item, "version")

C11_Witness ==
    \E r \in Reqs : /\ C11_Handed(r)
                    /\ req[r].method = "PUT"
                    /\ Has(req[r].body, "version")
                    /\ Has(req[r].body, "updatedAt")

\* The bytes a sequence of base64 digits stands for.
RECURSIVE FromBase64(_)
FromBase64(v) ==
    IF Len(v) < 4 THEN <<>>
    ELSE LET b1 == v[1] * 4 + v[2] \div 16
             b2 == (v[2] % 16) * 16 + v[3] \div 4
             b3 == (v[3] % 4) * 64 + v[4]
         IN IF v[3] = Pad THEN <<b1>>
            ELSE IF v[4] = Pad THEN <<b1, b2>>
            ELSE <<b1, b2, b3>> \o FromBase64(SubSeq(v, 5, Len(v)))

\* The seconds since the epoch of an ISO instant.
EpochSeconds(iso) == iso.day * 86400 + iso.sec

\* C12: convertItem on a document with _ts and _etag returns an item whose updatedAt
\* is the instant of _ts and whose version decodes to _etag, with no store-private
\* field and every other field as it was; on a document without _ts or without
\* _etag it throws.
C12_ConvertItemMapsOrFails ==
    outcome # "none" =>
        IF Has(arg, "_ts") /\ Has(arg, "_etag")
        THEN /\ outcome = "returned"
             /\ DOMAIN obj = (DOMAIN arg \ StorePrivate) \cup {"updatedAt", "version"}
             /\ EpochSeconds(obj["updatedAt"]) = arg["_ts"]
             /\ obj["updatedAt"].ms = 0
             /\ FromBase64(obj["version"]) = arg["_etag"]
             /\ \A f \in DOMAIN arg \ (StorePrivate \cup {"updatedAt", "version"}) :
                   obj[f] = arg[f]
        ELSE outcome = "threw"

C12_Witness ==
    /\ outcome = "returned"
    /\ StorePrivate \subseteq DOMAIN arg
    /\ Has(arg, "title")
    /\ arg["_ts"] > 0

\* C13: no step removes a document or an id from the store, and no two stored
\* documents have the same id (a POST with the id of a stored document, soft-deleted
\* or not, adds none).
C13_NothingRemoved ==
    /\ DOMAIN store \subseteq DOMAIN store'
    /\ UsedIds \subseteq { store'[l]["id"] : l \in DOMAIN store' }

C13_IdsUnique ==
    \A l1, l2 \in DOMAIN store :
        /\ Has(store[l1], "id")
        /\ store[l1]["id"] = store[l2]["id"] => l1 = l2

C13_NeverRemovedNeverDuplicated == [](C13_IdsUnique) /\ [][C13_NothingRemoved]_vars

C13_Witness ==
    \E r \in Reqs :
        /\ req[r].method = "POST"
        /\ req[r].pc = "done"
        /\ Has(req[r].body, "id")
        /\ Len(req[r].sent) = 1 /\ req[r].sent[1].status = 409
        /\ \E l \in DOMAIN store : store[l]["id"] = req[r].body["id"] /\ IsDeleted(store[l])
        /\ Cardinality(DOMAIN store) = 1

\* C14: when the create or the fetch of a request is rejected by the store with
\* status code c, the request is answered with status c, and a rejected create adds
\* no document.
C14_Rejected(r) ==
    /\ req[r].pc = "done"
    /\ Has(req[r].error, "code")
    /\ req[r].calls[Len(req[r].calls)] \in {"createDocument", "fetchDocument"}

C14_StatusKept ==
    \A r \in Reqs :
        C14_Rejected(r) =>
            /\ Len(req[r].sent) = 1
            /\ req[r].sent[1].status = req[r].error["code"]

C14_RejectedCreateAddsNothing ==
    \A r \in Reqs :
        (req[r].pc = "create" /\ req'[r].pc = "done" /\ Has(req'[r].error, "code"))
            => store' = store

C14_StoreStatusPreserved == [](C14_StatusKept) /\ [][C14_RejectedCreateAddsNothing]_vars

\* C15: for each database name createDatabase is called at most once, and every
\* call of ensureDatabaseExists that has ended has resolved, all calls for one name
\* with the same reference.
C15_Ended(c) == ensure[c].pc \in {"resolved", "rejected"}

C15_InitializedOnce ==
    /\ \A n \in DbNames : creates[n] <= 1
    /\ \A c \in EnsureCalls : C15_Ended(c) => ensure[c].pc = "resolved"
    /\ \A c, d \in EnsureCalls :
          (ensure[c].pc = "resolved" /\ ensure[d].pc = "resolved"
           /\ ensure[c].database = ensure[d].database)
              => ensure[c].result = ensure[d].result

\* C16: the rewrite loop ends: every turn leaves fewer updatedAt in the filter, so
\* the loop takes no more turns than the received filter has updatedAt. When it has
\* ended the filter holds no clause updatedAt <op> '<literal>': it is the received
\* filter with each clause, taken from the left, replaced by
\* _ts <op> <epoch seconds of the literal> (NaN for a literal that is no datetime)
\* and everything else as it was.
C16_Epoch(literal) ==
    IF MomentIsValid(literal)
    THEN ToString(EpochSeconds(DateLiterals[TrimLeft(literal)[1]]))
    ELSE "NaN"

RECURSIVE C16_Rewritten(_)
C16_Rewritten(f) ==
    IF f = <<>> THEN <<>>
    ELSE LET m == MatchAt(f, 1) IN
         IF m.len > 0
         THEN <<"_ts", " ">> \o m.op \o <<" ", C16_Epoch(m.literal)>>
                  \o C16_Rewritten(SubSeq(f, m.len + 1, Len(f)))
         ELSE <<Head(f)>> \o C16_Rewritten(Tail(f))

C16_Clauses(f) == Cardinality({ i \in 1..Len(f) : MatchAt(f, i).len > 0 })

C16_Ended == loop \in {"rewritten", "compiled"}

C16_Pending(f) == Cardinality({ i \in 1..Len(f) : f[i] = "updatedAt" })

C16_LoopEndsAllRewritten ==
    /\ turns + C16_Pending(filter) <= C16_Pending(given)
    /\ C16_Ended => /\ C16_Clauses(filter) = 0
                    /\ filter = C16_Rewritten(given)

C16_Witness ==
    /\ C16_Ended
    /\ C16_Clauses(given) >= 2
    /\ Cardinality({ i \in 1..Len(filter) : filter[i] = "_ts" }) >= 2
    /\ \E i \in 1..Len(filter) : filter[i] = "1486080000"

\* C17: when the literal of an updatedAt clause of the received filter is no
\* datetime, the loop does not end with a rewritten filter and no query is compiled.
C17_Malformed(f) ==
    \E i \in 1..Len(f) : MatchAt(f, i).len > 0 /\ ~MomentIsValid(MatchAt(f, i).literal)

C17_MalformedFilterAborts == C17_Malformed(given) => loop \notin {"rewritten", "compiled"}

\* C18: a replace that the store accepts for a PUT with a body version overwrites a
\* document whose version, at the time of the write, is the body's version; so of
\* two PUTs that carry the current version at most one is answered 200.
C18_AcceptedReplace(r) ==
    /\ req[r].method = "PUT"
    /\ req[r].pc = "replace"
    /\ req'[r].pc = "done"
    /\ writes' = writes + 1
    /\ Has(req[r].body, "version")

C18_NoLostUpdate ==
    [][\A r \in Reqs : C18_AcceptedReplace(r) =>
           ToBase64(store[req[r].link]["_etag"]) = req[r].body["version"]]_vars

\* C19: every replace call, of replaceItem and of deleteItem alike, is addressed to
\* the _self the fetched document had when it was fetched.
C19_ReplaceAddressedToFetched ==
    \A r \in Reqs : Replaces(r) => req[r].link = req[r].fetched["_self"]

\* C20: a stored document that has deleted=true has deleted=true ever after.
C20_Kept(l) == IsDeleted(store[l]) => (l \in DOMAIN store' /\ IsDeleted(store'[l]))

C20_SoftDeletionPermanent == [][\A l \in DOMAIN store : C20_Kept(l)]_vars

\* C21: no request is sent more than one response, whichever path its handler
\* takes: an answer of the handler, the catch handler's answer, or none when
\* convertError throws in the catch handler.
C21_AtMostOneResponse == \A r \in Reqs : Len(req[r].sent) <= 1

\* A request whose chain entered the catch handler after the store call, where
\* convertError threw; and before it a request that was answered.
C21_Witness ==
    \E r \in Reqs :
        /\ req[r].pc = "done"
        /\ req[r].calls # <<>>
        /\ Has(req[r].error, "code")
        /\ ConvertErrorThrows(req[r].error)
        /\ req[r].sent = <<>>
        /\ store # Empty

\* C22: when convertItem throws, the object it was called with is as it was at the
\* call: no field added, removed or changed.
C22_ThrowLeavesObjectAsItWas == outcome = "threw" => obj = arg

====
